---- MODULE Spec2Model ----
(***************************************************************************)
(* deno_scripts: the Scripts() orchestrator (mod.ts).  One run of          *)
(* Scripts(config, globalConfig) with the process arguments Deno.args:     *)
(* script selection, envFile defaulting, environment overlay, watch        *)
(* resolution, target-file check, watcher loop or child launch, and the    *)
(* exit of the orchestrator.                                               *)
(*                                                                         *)
(* JavaScript values are tagged records: [t |-> "undefined"],              *)
(* [t |-> "boolean", v |-> b], [t |-> "string", v |-> s],                  *)
(* [t |-> "number", v |-> n], [t |-> "array", v |-> seq],                  *)
(* [t |-> "object", v |-> f] with f a function from property names.        *)
(* A scalar string that the code later splits on white space carries its   *)
(* text as a sequence of lexemes, " " standing for a run of white space.   *)
(***************************************************************************)
EXTENDS Integers, Sequences, FiniteSets, TLC

VARIABLES
    args,              \* Deno.args
    config,            \* the declaration mapping handed to Scripts()
    globalConfig,      \* the GlobalConfig object handed to Scripts()
    fs,                \* the paths that exist in the working directory
    pc,                \* position of Scripts() in its body
    script,            \* const script = config[scriptArg]
    envFile,           \* const envFile
    env,               \* let env
    watchModeEnabled,  \* const watchModeEnabled
    watchOptions,      \* const watchOptions
    watcher,           \* the Watcher constructed at line 186, or undefined
    batches,           \* change batches the watcher has yielded so far
    children,          \* child processes created by Deno.run, in order
    out,               \* lines printed by fail / log / debug, in order
    exit,              \* how the process ended, or undefined
    history,           \* the GlobalConfig as the caller wrote it, and the values
                       \* an earlier call of Scripts() on the same objects resolved
    scriptsTs          \* the content of ./scripts.ts, or undefined

vars == <<history, scriptsTs, args, config, globalConfig, fs, pc, script, envFile, env,
          watchModeEnabled, watchOptions, watcher, batches, children, out,
          exit>>

(***************************************************************************)
(* Bounds of the model.                                                    *)
(***************************************************************************)
MaxBatches == 2     \* change batches one run of the watcher yields
MaxChanges == 2     \* changes in one batch
MaxExitCode == 2    \* exit codes of a child are 0..MaxExitCode

(***************************************************************************)
(* JavaScript values and operators.                                        *)
(***************************************************************************)
Undef == [t |-> "undefined"]
B(b) == [t |-> "boolean", v |-> b]
S(s) == [t |-> "string", v |-> s]
Text(q) == [t |-> "string", lex |-> q]
N(n) == [t |-> "number", v |-> n]
A(q) == [t |-> "array", v |-> q]
O(f) == [t |-> "object", v |-> f]

\* if (x) / Boolean(x) / !x
Truthy(x) ==
    CASE x.t = "undefined" -> FALSE
      [] x.t = "boolean" -> x.v
      [] x.t = "string" -> IF "v" \in DOMAIN x THEN x.v # "" ELSE x.lex # <<>>
      [] x.t = "number" -> x.v # 0
      [] OTHER -> TRUE

\* a || b
LogicalOr(a, b) == IF Truthy(a) THEN a ELSE b

\* a ?? b
Nullish(a, b) == IF a = Undef THEN b ELSE a

\* o.k : undefined when o has no such property
Get(o, k) == IF o.t = "object" /\ k \in DOMAIN o.v THEN o.v[k] ELSE Undef

\* a spread in which the first mapping keeps its keys
SpreadFirstWins(a, b) ==
    [k \in (DOMAIN a) \cup (DOMAIN b) |-> IF k \in DOMAIN a THEN a[k] ELSE b[k]]

\* { ...a, ...b } on plain mappings
Spread(a, b) ==
    [k \in (DOMAIN a) \cup (DOMAIN b) |-> IF k \in DOMAIN b THEN b[k] ELSE a[k]]

EmptyObject == [k \in {} |-> Undef]

\* properties every object literal inherits from Object.prototype
ObjectPrototypeKeys == {"constructor"}

\* config[scriptArg]
Lookup(cfg, name) ==
    IF name \in DOMAIN cfg THEN O(cfg[name])
    ELSE IF name \in ObjectPrototypeKeys THEN [t |-> "function", v |-> name]
    ELSE Undef

\* const [scriptArg, ...restArg] = Deno.args
scriptArg == IF Len(args) > 0 THEN S(args[1]) ELSE Undef
restArg == IF Len(args) > 0 THEN Tail(args) ELSE <<>>

(***************************************************************************)
(* log.ts: fail prints the message on the error stream and ends the        *)
(* process with FailCode; log and debug print a line.                      *)
(***************************************************************************)
FailCode == 1

Fail(msg) ==
    /\ out' = Append(out, [level |-> "fail", msg |-> msg])
    /\ exit' = [via |-> "fail", code |-> FailCode]
    /\ pc' = "exited"

Throw(what) ==
    /\ out' = Append(out, [level |-> "uncaught", msg |-> what])
    /\ exit' = [via |-> "throw", code |-> FailCode]
    /\ pc' = "exited"

(***************************************************************************)
(* lib/utils.ts, lib/env.ts, lib/args.ts, lib/permissions.ts.              *)
(***************************************************************************)
\* toArgsStringList: a string is split on white space, a list is taken as is
toArgsStringList(x) ==
    CASE x.t = "array" -> x.v
      [] x.t = "string" ->
            IF "lex" \in DOMAIN x THEN SelectSeq(x.lex, LAMBDA w : w # " ")
            ELSE IF x.v = "" THEN <<>> ELSE <<x.v>>
      [] OTHER -> <<>>

NumeralOf(n) == <<"0", "1", "2", "3", "4", "5", "6", "7", "8", "9">>[n + 1]

\* String(value) of an env scalar
ToEnvString(x) ==
    CASE x.t = "string" -> x.v
      [] x.t = "number" -> NumeralOf(x.v)
      [] x.t = "boolean" -> IF x.v THEN "true" ELSE "false"

\* loadEnvFromObject: every value of the mapping as a string
loadEnvFromObject(o) == [k \in DOMAIN o.v |-> ToEnvString(o.v[k])]

\* the key/value pairs the env-file parser reads from an existing env file
EnvFileContent(path) ==
    IF path = ".env"
    THEN [f |-> "file", fg |-> "file", fs |-> "file", fgs |-> "file"]
    ELSE [f |-> "named", fg |-> "named", fs |-> "named", fgs |-> "named"]

\* argifyArgs(local, global)
argifyArgs(local, global) == toArgsStringList(Nullish(local, global))

PermissionFlags ==
    <<[key |-> "allowAll", flag |-> "--allow-all"],
      [key |-> "allowNet", flag |-> "--allow-net"],
      [key |-> "allowRead", flag |-> "--allow-read"]>>

RECURSIVE FlagsFrom(_, _)
FlagsFrom(perm, i) ==
    IF i > Len(PermissionFlags) THEN <<>>
    ELSE (IF Truthy(Get(perm, PermissionFlags[i].key))
          THEN <<PermissionFlags[i].flag>> ELSE <<>>) \o FlagsFrom(perm, i + 1)

\* argifyPermissions(local, global)
argifyPermissions(local, global) == FlagsFrom(Nullish(local, global), 1)

\* argifyTsconfig(local, global)
argifyTsconfig(local, global) ==
    LET p == Nullish(local, global) IN IF Truthy(p) THEN <<"-c", p.v>> ELSE <<>>

\* argifyImportMap(path)
argifyImportMap(p) == IF Truthy(p) THEN <<"--importmap", p.v>> ELSE <<>>

\* argifyUnstable(flag)
argifyUnstable(u) == IF Truthy(u) THEN <<"--unstable">> ELSE <<>>

(***************************************************************************)
(* Inputs: the declaration, the global configuration, the process          *)
(* arguments and the working directory.                                    *)
(***************************************************************************)
TargetFile == "./mod.ts"
NamedEnvFile == "prod.env"

ScriptEnv == O([s |-> S("script"), fs |-> N(1), gs |-> B(TRUE), fgs |-> S("script")])
GlobalEnv == O([g |-> S("global"), fg |-> N(2), gs |-> B(FALSE), fgs |-> S("global")])

ScriptWatch == O([paths |-> A(<<"./lib">>), interval |-> N(3)])
GlobalWatch == O([interval |-> N(5), recursive |-> B(TRUE)])

NoFlags ==
    [args |-> Undef, permissions |-> Undef, tsconfig |-> Undef, denoArgs |-> Undef,
     importMap |-> Undef, unstable |-> Undef, debug |-> Undef]
ScriptFlags ==
    [args |-> Text(<<"--port", " ", "80">>), permissions |-> O([allowNet |-> B(TRUE)]),
     tsconfig |-> S("tsconfig.json"), denoArgs |-> A(<<"--reload">>),
     importMap |-> Undef, unstable |-> Undef, debug |-> Undef]
GlobalFlags ==
    [args |-> A(<<"--verbose">>),
     permissions |-> O([allowRead |-> B(TRUE), allowAll |-> B(FALSE)]),
     tsconfig |-> S("base.json"), denoArgs |-> Text(<<"--lock", " ", "lock.json">>),
     importMap |-> S("map.json"), unstable |-> B(TRUE), debug |-> B(TRUE)]

EnvFileValues == {Undef, B(FALSE), B(TRUE), S(NamedEnvFile)}
EnvValues == {Undef, ScriptEnv}
GlobalEnvValues == {Undef, GlobalEnv}
WatchValues == {Undef, B(FALSE), B(TRUE), ScriptWatch}
GlobalWatchValues == {Undef, B(FALSE), B(TRUE), GlobalWatch}
RunValues == {Text(<<"echo", " ", "hello">>), A(<<"echo", "hello world">>)}

\* a ScriptFile / ScriptRun object literal
ScriptOf(file, run, ef, e, w, fl) ==
    [file |-> file, run |-> run, envFile |-> ef, env |-> e, watch |-> w,
     args |-> fl.args, permissions |-> fl.permissions, tsconfig |-> fl.tsconfig,
     denoArgs |-> fl.denoArgs]

\* a GlobalConfig object literal
GlobalOf(ef, e, w, fl) ==
    O([envFile |-> ef, env |-> e, watch |-> w, args |-> fl.args,
       permissions |-> fl.permissions, tsconfig |-> fl.tsconfig,
       denoArgs |-> fl.denoArgs, importMap |-> fl.importMap,
       unstable |-> fl.unstable, debug |-> fl.debug])

\* declarations of one script: file-backed "log", command-backed "echo"
Configs(EF, EV, WV, FL, RV) ==
    {[log |-> ScriptOf(S(TargetFile), Undef, ef, e, w, fl)] :
        ef \in EF, e \in EV, w \in WV, fl \in FL}
    \cup
    {[echo |-> ScriptOf(Undef, r, ef, e, w, fl)] :
        r \in RV, ef \in EF, e \in EV, w \in WV, fl \in FL}

ArgsValues ==
    {<<>>, <<"">>, <<"other">>, <<"constructor">>, <<"log">>, <<"echo">>,
     <<"log", "--", "a b">>, <<"echo", "--", "a b">>}

MixedFlags ==
    [args |-> S("--one"), permissions |-> Undef, tsconfig |-> Undef,
     denoArgs |-> A(<<>>), importMap |-> S("map.json"), unstable |-> Undef,
     debug |-> Undef]

ArgsCmdValues ==
    ArgsValues \cup {<<"log", TargetFile, "--allow-net">>, <<"echo", "echo", "--unstable">>}

FsValues == {F \cup {NamedEnvFile} : F \in SUBSET {".env", TargetFile}}

InitWith(AV, CV, GV) ==
    /\ args \in AV
    /\ config \in CV
    /\ globalConfig \in GV
    /\ fs \in FsValues
    /\ pc = "start"
    /\ script = Undef
    /\ envFile = Undef
    /\ env = Undef
    /\ watchModeEnabled = FALSE
    /\ watchOptions = EmptyObject
    /\ watcher = Undef
    /\ batches = 0
    /\ children = <<>>
    /\ out = <<>>
    /\ exit = Undef
    /\ history = [original |-> globalConfig, first |-> Undef]
    /\ scriptsTs = S("declaration")

Init ==
    InitWith(ArgsValues,
             Configs(EnvFileValues, EnvValues, WatchValues, {NoFlags},
                     {Text(<<"echo", " ", "hello">>)}),
             {GlobalOf(ef, e, w, NoFlags) :
                 ef \in EnvFileValues, e \in GlobalEnvValues, w \in GlobalWatchValues})

(***************************************************************************)
(* Scripts(): lines 132-142, script selection.                             *)
(***************************************************************************)
SelectScript ==
    /\ pc = "start"
    /\ IF ~Truthy(scriptArg)
       THEN /\ Fail(<<"Specify a script to be executed!">>)
            /\ UNCHANGED script
       ELSE LET found == Lookup(config, scriptArg.v) IN
            IF found = Undef
            THEN /\ Fail(<<"script \"", scriptArg.v, "\" not found!">>)
                 /\ UNCHANGED script
            ELSE /\ script' = found
                 /\ pc' = "defaults"
                 /\ UNCHANGED <<out, exit>>
    /\ UNCHANGED <<history, scriptsTs, args, config, globalConfig, fs, envFile, env, watchModeEnabled,
                   watchOptions, watcher, batches, children>>

\* defaultCommonArgs without the probe of ".env"
defaultCommonArgsNoProbe(local, global) == global

\* defaultCommonArgs(_local, global): the global object after the call
defaultCommonArgs(local, global) ==
    IF Get(global, "envFile") = Undef /\ ".env" \in fs
    THEN O([global.v EXCEPT !["envFile"] = B(TRUE)])
    ELSE global

\* lines 144-146
ResolveEnvFile ==
    /\ pc = "defaults"
    /\ globalConfig' = defaultCommonArgs(script, globalConfig)
    /\ envFile' = Nullish(Get(script, "envFile"), Get(globalConfig', "envFile"))
    /\ pc' = "loadEnv"
    /\ UNCHANGED <<history, scriptsTs, args, config, fs, script, env, watchModeEnabled, watchOptions,
                   watcher, batches, children, out, exit>>

\* typeof envFile === "string" ? envFile : ".env"
EnvFilePath(ef) == IF ef.t = "string" THEN ef.v ELSE ".env"

\* lines 150-154: loadEnvFromFile throws when it cannot read the file
LoadEnvFile ==
    /\ pc = "loadEnv"
    /\ IF Truthy(envFile)
       THEN IF EnvFilePath(envFile) \in fs
            THEN /\ env' = O(EnvFileContent(EnvFilePath(envFile)))
                 /\ pc' = "mergeEnv"
                 /\ UNCHANGED <<out, exit>>
            ELSE /\ Throw(<<"loadEnvFromFile", EnvFilePath(envFile)>>)
                 /\ UNCHANGED env
       ELSE /\ pc' = "mergeEnv"
            /\ UNCHANGED <<env, out, exit>>
    /\ UNCHANGED <<history, scriptsTs, args, config, globalConfig, fs, script, envFile, watchModeEnabled,
                   watchOptions, watcher, batches, children>>

\* env = { ...(env || defaultEmptyObject), ...loadEnvFromObject(layer) }
Overlay(e, layer) ==
    IF Truthy(layer)
    THEN O(Spread(IF Truthy(e) THEN e.v ELSE EmptyObject, loadEnvFromObject(layer)))
    ELSE e

\* the overlay with the global layer applied last
buildEnvGlobalLast(fileEnv, globalEnv, scriptEnv) ==
    Overlay(Overlay(fileEnv, scriptEnv), globalEnv)

\* lines 156-168
buildEnv(fileEnv, globalEnv, scriptEnv) ==
    Overlay(Overlay(fileEnv, globalEnv), scriptEnv)

MergeEnv ==
    /\ pc = "mergeEnv"
    /\ env' = buildEnv(env, Get(globalConfig, "env"), Get(script, "env"))
    /\ pc' = "resolveWatch"
    /\ UNCHANGED <<history, scriptsTs, args, config, globalConfig, fs, script, envFile, watchModeEnabled,
                   watchOptions, watcher, batches, children, out, exit>>

\* typeof x === "object" ? x : defaultEmptyObject
ObjectOrEmpty(x) == IF x.t = "object" THEN x.v ELSE EmptyObject

\* lines 170-179
ResolveWatch ==
    /\ pc = "resolveWatch"
    /\ watchModeEnabled' = Truthy(Nullish(Get(script, "watch"), Get(globalConfig, "watch")))
    /\ out' = IF watchModeEnabled'
              THEN Append(out, [level |-> "log", msg |-> <<"Watch mode enabled.">>])
              ELSE out
    /\ watchOptions' = Spread(ObjectOrEmpty(Get(globalConfig, "watch")),
                              ObjectOrEmpty(Get(script, "watch")))
    /\ pc' = "dispatch"
    /\ UNCHANGED <<history, scriptsTs, args, config, globalConfig, fs, script, envFile, env, watcher,
                   batches, children, exit>>

\* the argument vector with the rest args ahead of the script args
fileCmdRestFirst(sc, gc, rest) ==
    <<"deno", "run">>
    \o argifyPermissions(Get(sc, "permissions"), Get(gc, "permissions"))
    \o argifyTsconfig(Get(sc, "tsconfig"), Get(gc, "tsconfig"))
    \o argifyArgs(Get(sc, "denoArgs"), Get(gc, "denoArgs"))
    \o argifyImportMap(Get(gc, "importMap"))
    \o argifyUnstable(Get(gc, "unstable"))
    \o <<Get(sc, "file").v>>
    \o rest
    \o argifyArgs(Get(sc, "args"), Get(gc, "args"))

\* lines 209-220: the argument vector of a file-backed script
fileCmd(sc, gc, rest) ==
    <<"deno", "run">>
    \o argifyPermissions(Get(sc, "permissions"), Get(gc, "permissions"))
    \o argifyTsconfig(Get(sc, "tsconfig"), Get(gc, "tsconfig"))
    \o argifyArgs(Get(sc, "denoArgs"), Get(gc, "denoArgs"))
    \o argifyImportMap(Get(gc, "importMap"))
    \o argifyUnstable(Get(gc, "unstable"))
    \o <<Get(sc, "file").v>>
    \o argifyArgs(Get(sc, "args"), Get(gc, "args"))
    \o rest

\* lines 238-242: the argument vector of a command-backed script
runCmd(sc, gc, rest) ==
    toArgsStringList(Get(sc, "run"))
    \o argifyArgs(Get(sc, "args"), Get(gc, "args"))
    \o rest

\* lines 221-226, 243-248: debug({ cmd, env }) when globalConfig.debug is set
DebugCmd(cmd) ==
    IF Truthy(Get(globalConfig, "debug"))
    THEN Append(out, [level |-> "debug", msg |-> <<"cmd">>, cmd |-> cmd, env |-> env])
    ELSE out

\* Deno.run({ cmd, env, ... })
DenoRun(cmd, stdio) ==
    children' = Append(children, [cmd |-> cmd, env |-> env, stdio |-> stdio,
                                  status |-> Undef])

\* CheckFile without the exists() test
CheckFileSkipped ==
    /\ pc = "dispatch"
    /\ Truthy(Get(script, "file"))
    /\ pc' = IF watchModeEnabled THEN "startWatcher" ELSE "runFile"
    /\ UNCHANGED <<history, scriptsTs, args, config, globalConfig, fs, script, envFile, env,
                   watchModeEnabled, watchOptions, watcher, batches, children, out,
                   exit>>

\* lines 181-185: the target file check of a file-backed script
CheckFile ==
    /\ pc = "dispatch"
    /\ Truthy(Get(script, "file"))
    /\ IF Get(script, "file").v \notin fs
       THEN Fail(<<"File ", Get(script, "file").v, " not found!">>)
       ELSE /\ pc' = IF watchModeEnabled THEN "startWatcher" ELSE "runFile"
            /\ UNCHANGED <<out, exit>>
    /\ UNCHANGED <<history, scriptsTs, args, config, globalConfig, fs, script, envFile, env,
                   watchModeEnabled, watchOptions, watcher, batches, children>>

\* o.k || defaultEmptyArray
ArrayOrEmpty(x) == IF Truthy(x) THEN x.v ELSE <<>>

WatchOption(k) == IF k \in DOMAIN watchOptions THEN watchOptions[k] ELSE Undef

\* lines 186-195: new Watcher(paths, options)
StartWatcher ==
    /\ pc = "startWatcher"
    /\ watcher' = O([paths |-> <<Get(script, "file").v>> \o ArrayOrEmpty(WatchOption("paths")),
                     interval |-> WatchOption("interval"),
                     recursive |-> WatchOption("recursive"),
                     exts |-> WatchOption("extensions"),
                     match |-> WatchOption("match"),
                     skip |-> WatchOption("skip")])
    /\ pc' = "watching"
    /\ UNCHANGED <<history, scriptsTs, args, config, globalConfig, fs, script, envFile, env,
                   watchModeEnabled, watchOptions, batches, children, out, exit>>

\* a non-empty batch of changes the watcher yields
ChangeBatches ==
    {[i \in 1..n |-> [path |-> TargetFile, event |-> "modify"]] : n \in 1..MaxChanges}

\* OnChanges that also launches the script, without awaiting the previous run
OnChangesRerun ==
    /\ pc = "watching"
    /\ batches < MaxBatches
    /\ \E changes \in ChangeBatches :
          out' = Append(out, [level |-> "log", msg |-> <<"Detected changes. Rerunning...">>,
                              count |-> Len(changes), plural |-> Len(changes) > 1])
    /\ DenoRun(fileCmd(script, globalConfig, restArg), "inherit")
    /\ batches' = batches + 1
    /\ UNCHANGED <<history, scriptsTs, args, config, globalConfig, fs, pc, script, envFile, env,
                   watchModeEnabled, watchOptions, watcher, exit>>

\* lines 197-207: the body of the for-await loop, for one batch
OnChanges ==
    /\ pc = "watching"
    /\ batches < MaxBatches
    /\ \E changes \in ChangeBatches :
          out' = Append(out, [level |-> "log", msg |-> <<"Detected changes. Rerunning...">>,
                              count |-> Len(changes), plural |-> Len(changes) > 1])
                 \o [i \in 1..Len(changes) |->
                        [level |-> "debug", msg |-> <<"File was">>, change |-> changes[i]]]
    /\ batches' = batches + 1
    /\ UNCHANGED <<history, scriptsTs, args, config, globalConfig, fs, pc, script, envFile, env,
                   watchModeEnabled, watchOptions, watcher, children, exit>>

\* lines 209-233: launch of a file-backed script outside watch mode
RunFile ==
    /\ pc = "runFile"
    /\ LET cmd == fileCmd(script, globalConfig, restArg) IN
          /\ out' = DebugCmd(cmd)
          /\ DenoRun(cmd, "inherit")
    /\ pc' = "awaitStatus"
    /\ UNCHANGED <<history, scriptsTs, args, config, globalConfig, fs, script, envFile, env,
                   watchModeEnabled, watchOptions, watcher, batches, exit>>

\* RunCommand without the test of script.run
RunCommandAnyRun ==
    /\ pc = "dispatch"
    /\ ~Truthy(Get(script, "file"))
    /\ LET cmd == runCmd(script, globalConfig, restArg) IN
          /\ out' = DebugCmd(cmd)
          /\ DenoRun(cmd, "default")
    /\ pc' = "awaitStatus"
    /\ UNCHANGED <<history, scriptsTs, args, config, globalConfig, fs, script, envFile,
                   env, watchModeEnabled, watchOptions, watcher, batches, exit>>

\* lines 237-252: launch of a command-backed script
RunCommand ==
    /\ pc = "dispatch"
    /\ ~Truthy(Get(script, "file"))
    /\ Truthy(Get(script, "run"))
    /\ LET cmd == runCmd(script, globalConfig, restArg) IN
          /\ out' = DebugCmd(cmd)
          /\ DenoRun(cmd, "default")
    /\ pc' = "awaitStatus"
    /\ UNCHANGED <<history, scriptsTs, args, config, globalConfig, fs, script, envFile, env,
                   watchModeEnabled, watchOptions, watcher, batches, exit>>

\* lines 255-257: neither file nor run
NoTarget ==
    /\ pc = "dispatch"
    /\ ~Truthy(Get(script, "file"))
    /\ ~Truthy(Get(script, "run"))
    /\ Fail(<<"Script not found!">>)
    /\ UNCHANGED <<history, scriptsTs, args, config, globalConfig, fs, script, envFile, env,
                   watchModeEnabled, watchOptions, watcher, batches, children>>

\* a running child ends with an exit code
ChildExits ==
    \E i \in 1..Len(children), code \in 0..MaxExitCode :
        /\ children[i].status = Undef
        /\ children' = [children EXCEPT ![i].status = [t |-> "status", code |-> code]]
        /\ UNCHANGED <<history, scriptsTs, args, config, globalConfig, fs, pc, script, envFile, env,
                       watchModeEnabled, watchOptions, watcher, batches, out, exit>>

\* a status code that is not the child's
StatusCodeZero(child) == 0

\* (await process.status()).code
StatusCode(child) == child.status.code

\* lines 235, 254: Deno.exit((await process.status()).code)
ExitWithStatus ==
    /\ pc = "awaitStatus"
    /\ children[Len(children)].status # Undef
    /\ exit' = [via |-> "status", code |-> StatusCode(children[Len(children)])]
    /\ pc' = "exited"
    /\ UNCHANGED <<history, scriptsTs, args, config, globalConfig, fs, script, envFile, env,
                   watchModeEnabled, watchOptions, watcher, batches, children, out>>

\* inputs that vary the flags, the arguments and the rest args of the command
InitCmd ==
    InitWith(ArgsCmdValues,
             Configs({Undef}, {Undef}, {Undef, B(TRUE)},
                     {NoFlags, ScriptFlags, MixedFlags}, RunValues),
             {GlobalOf(ef, Undef, Undef, fl) :
                 ef \in {Undef, B(TRUE)}, fl \in {NoFlags, GlobalFlags, MixedFlags}})

\* watch option objects at both levels: overlapping keys, disjoint keys, a key
\* written as undefined, the empty object
WatchObjects ==
    {ScriptWatch, GlobalWatch, O([interval |-> Undef, skip |-> A(<<"*.md">>)]),
     O([extensions |-> A(<<"ts">>)]), O(EmptyObject)}

InitWatch ==
    InitWith(ArgsValues,
             Configs({Undef}, {Undef}, {Undef, B(FALSE), B(TRUE)} \cup WatchObjects,
                     {NoFlags}, {A(<<"echo", "hello world">>)}),
             {GlobalOf(ef, Undef, w, NoFlags) :
                 ef \in {Undef, B(TRUE)},
                 w \in {Undef, B(FALSE), B(TRUE)} \cup WatchObjects})

(***************************************************************************)
(* Scripts() called a second time with the same objects, once the first    *)
(* call has resolved (lines 132-179); the working directory may change in  *)
(* between.                                                                *)
(***************************************************************************)
CallAgain ==
    /\ pc = "dispatch"
    /\ history.first = Undef
    /\ history' = [history EXCEPT !.first =
                      [envFile |-> envFile, env |-> env,
                       watchModeEnabled |-> watchModeEnabled,
                       watchOptions |-> watchOptions, dotEnv |-> ".env" \in fs]]
    /\ pc' = "start"
    /\ script' = Undef
    /\ envFile' = Undef
    /\ env' = Undef
    /\ watchModeEnabled' = FALSE
    /\ watchOptions' = EmptyObject
    /\ UNCHANGED <<scriptsTs, args, config, globalConfig, fs, watcher, batches,
                   children, out, exit>>

\* .env is created or removed between the two calls
DotEnvChanges ==
    /\ pc = "start"
    /\ history.first # Undef
    /\ fs' = IF ".env" \in fs THEN fs \ {".env"} ELSE fs \cup {".env"}
    /\ UNCHANGED <<history, scriptsTs, args, config, globalConfig, pc, script, envFile,
                   env, watchModeEnabled, watchOptions, watcher, batches, children,
                   out, exit>>

InitTwice ==
    InitWith(ArgsValues,
             Configs(EnvFileValues, EnvValues, {Undef, B(TRUE), ScriptWatch}, {NoFlags},
                     {A(<<"echo", "hello world">>)}),
             {GlobalOf(ef, e, w, NoFlags) :
                 ef \in EnvFileValues, e \in GlobalEnvValues, w \in {Undef, GlobalWatch}})

\* lines 132-179, twice
NextTwice ==
    \/ SelectScript
    \/ ResolveEnvFile
    \/ LoadEnvFile
    \/ MergeEnv
    \/ ResolveWatch
    \/ CallAgain
    \/ DotEnvChanges

\* declarations of a script with no target: file and run absent or empty
NoTargetConfigs ==
    {[bad |-> ScriptOf(t[1], t[2], ef, Undef, w, NoFlags)] :
        t \in {<<Undef, Undef>>, <<S(""), S("")>>, <<S(""), Undef>>, <<Undef, S("")>>},
        ef \in {Undef, B(TRUE)}, w \in WatchValues}

InitTarget ==
    InitWith(ArgsValues \cup {<<"bad">>, <<"bad", "--", "a b">>},
             NoTargetConfigs \cup
             Configs({Undef, B(TRUE)}, {Undef}, {Undef, B(TRUE)}, {NoFlags}, RunValues),
             {GlobalOf(Undef, e, w, NoFlags) :
                 e \in GlobalEnvValues, w \in {Undef, B(TRUE)}})

(***************************************************************************)
(* cli.ts: the command-line shim.  scriptsTs is the content of             *)
(* ./scripts.ts in the working directory, Undef while the file is absent.  *)
(***************************************************************************)
\* const [cmd = ""] = Deno.args
cliCmd == IF Len(args) > 0 THEN args[1] ELSE ""

\* toLowerCase left out of the switch
toLowerCaseNone(s) == s

\* String.prototype.toLowerCase on the first arguments the model draws
toLowerCase(s) ==
    CASE s = "INIT" -> "init"
      [] s = "Init" -> "init"
      [] s = "Echo" -> "echo"
      [] OTHER -> s

\* the text Deno.writeTextFileSync writes
Template == S("template")

\* the command of readScriptsFile without the process arguments
readScriptsCmdBare(a) == <<"deno", "run", "-A", "./scripts.ts">>

\* line 48: ["deno", "run", "-A", "./scripts.ts", ...Deno.args]
readScriptsCmd(a) == <<"deno", "run", "-A", "./scripts.ts">> \o a

\* the end of the module: the process ends with code 0
CliEnd ==
    /\ exit' = [via |-> "end", code |-> 0]
    /\ pc' = "exited"

\* what the shim never reads or writes
orchestratorVars ==
    <<config, globalConfig, fs, script, envFile, env, watchModeEnabled,
      watchOptions, watcher, batches>>

\* lines 4-24 and 39-55, up to the first await of each branch
CliStart ==
    /\ pc = "cli"
    /\ IF toLowerCase(cliCmd) = "init"
       THEN IF scriptsTs # Undef
            THEN /\ out' = Append(out, [level |-> "log",
                                        msg |-> <<"scripts.ts file already exists.">>])
                 /\ CliEnd
                 /\ UNCHANGED <<scriptsTs, children>>
            ELSE /\ scriptsTs' = Template
                 /\ DenoRun(<<"deno", "cache", "./scripts.ts">>, "default")
                 /\ pc' = "cliCache"
                 /\ UNCHANGED <<out, exit>>
       ELSE IF scriptsTs # Undef
            THEN /\ DenoRun(readScriptsCmd(args), "default")
                 /\ pc' = "cliRun"
                 /\ UNCHANGED <<scriptsTs, out, exit>>
            ELSE /\ Fail(<<"scripts.ts file not found!">>)
                 /\ UNCHANGED <<scriptsTs, children>>
    /\ UNCHANGED <<history, args>>
    /\ UNCHANGED orchestratorVars

\* lines 26-32: deno cache has ended, deno fmt is launched
CliInitCached ==
    /\ pc = "cliCache"
    /\ children[Len(children)].status # Undef
    /\ DenoRun(<<"deno", "fmt", "-q", "./scripts.ts">>, "default")
    /\ pc' = "cliFmt"
    /\ UNCHANGED <<history, scriptsTs, args, out, exit>>
    /\ UNCHANGED orchestratorVars

\* lines 30-37: deno fmt has ended
CliInitFormatted ==
    /\ pc = "cliFmt"
    /\ children[Len(children)].status # Undef
    /\ out' = Append(out, [level |-> "log", msg |-> <<"scripts.ts file created.">>])
    /\ CliEnd
    /\ UNCHANGED <<history, scriptsTs, args, children>>
    /\ UNCHANGED orchestratorVars

\* lines 50-52: the child running scripts.ts has ended
CliRunEnded ==
    /\ pc = "cliRun"
    /\ children[Len(children)].status # Undef
    /\ CliEnd
    /\ UNCHANGED <<history, scriptsTs, args, children, out>>
    /\ UNCHANGED orchestratorVars

\* the running deno fmt child rewrites ./scripts.ts in place
FmtRewrites ==
    /\ \E i \in 1..Len(children) :
          children[i].status = Undef /\ children[i].cmd[2] = "fmt"
    /\ scriptsTs # Undef
    /\ scriptsTs' = S("formatted")
    /\ UNCHANGED <<history, args, pc, children, out, exit>>
    /\ UNCHANGED orchestratorVars

CliArgsValues ==
    {<<>>, <<"">>, <<"init">>, <<"INIT">>, <<"Init">>, <<"init", "x">>,
     <<"initial">>, <<"echo">>, <<"Echo">>, <<"log", "--", "a b">>}

InitCli ==
    /\ args \in CliArgsValues
    /\ scriptsTs \in {Undef, S("declaration")}
    /\ history = [original |-> scriptsTs, first |-> Undef]
    /\ pc = "cli"
    /\ config = [log |-> ScriptOf(S(TargetFile), Undef, Undef, Undef, Undef, NoFlags)]
    /\ globalConfig = GlobalOf(Undef, Undef, Undef, NoFlags)
    /\ fs = {}
    /\ script = Undef
    /\ envFile = Undef
    /\ env = Undef
    /\ watchModeEnabled = FALSE
    /\ watchOptions = EmptyObject
    /\ watcher = Undef
    /\ batches = 0
    /\ children = <<>>
    /\ out = <<>>
    /\ exit = Undef

NextCli ==
    \/ CliStart
    \/ CliInitCached
    \/ CliInitFormatted
    \/ CliRunEnded
    \/ FmtRewrites
    \/ ChildExits

SpecCli == InitCli /\ [][NextCli]_vars

Next ==
    \/ SelectScript
    \/ ResolveEnvFile
    \/ LoadEnvFile
    \/ MergeEnv
    \/ ResolveWatch
    \/ CheckFile
    \/ StartWatcher
    \/ OnChanges
    \/ RunFile
    \/ RunCommand
    \/ NoTarget
    \/ ChildExits
    \/ ExitWithStatus

Spec == Init /\ [][Next]_vars

SpecCmd == InitCmd /\ [][Next]_vars

SpecWatch == InitWatch /\ [][Next]_vars

SpecTwice == InitTwice /\ [][NextTwice]_vars

SpecTarget == InitTarget /\ [][Next]_vars

\* the runtime resumes Scripts() once the awaited child status is available
FairSpec == Spec /\ WF_vars(ExitWithStatus)

(***************************************************************************)
(* Vocabulary of the properties, stated on the inputs and on what the run  *)
(* has done.                                                               *)
(***************************************************************************)
\* the script name is empty, missing, or no key of the declaration
NameMissing ==
    \/ scriptArg = Undef
    \/ scriptArg.v = ""
    \/ scriptArg.v \notin DOMAIN config

\* the declared script the name selects (only where ~NameMissing)
Declared == config[scriptArg.v]

FileBacked == ~NameMissing /\ Truthy(Declared.file)
CommandBacked == ~NameMissing /\ ~FileBacked /\ Truthy(Declared.run)

\* watch mode is requested: script-level watch, or else global watch, is truthy
WatchRequested ==
    /\ ~NameMissing
    /\ IF Declared.watch # Undef THEN Truthy(Declared.watch)
       ELSE Truthy(globalConfig.v.watch)

Exited == pc = "exited"
ExitVia == IF exit = Undef THEN "none" ELSE exit.via
Running == {i \in 1..Len(children) : children[i].status = Undef}

\* the last line printed is a fatal message that mentions the text
FailedMentioning(text) ==
    /\ ExitVia = "fail"
    /\ exit.code # 0
    /\ out # <<>>
    /\ out[Len(out)].level = "fail"
    /\ \E i \in 1..Len(out[Len(out)].msg) : out[Len(out)].msg[i] = text

FailedWithMessage ==
    /\ ExitVia = "fail"
    /\ exit.code # 0
    /\ out # <<>>
    /\ out[Len(out)].level = "fail"

(***************************************************************************)
(* C1. In watch mode of a file-backed script every change batch launches   *)
(* the child once: while the watcher runs, the number of launches follows  *)
(* the number of batches yielded (N batches, N reruns, the first run       *)
(* aside), and each batch prints one line with its change count.           *)
(***************************************************************************)
C1_RerunPerBatch ==
    watcher # Undef =>
        /\ Len(children) \in {batches, batches + 1}
        /\ Cardinality({i \in 1..Len(out) :
                out[i].level = "log" /\ "count" \in DOMAIN out[i]}) = batches

(***************************************************************************)
(* C2. When watch mode is requested for the selected script, file-backed   *)
(* or command-backed, the orchestrator never exits with a child's exit     *)
(* code.                                                                   *)
(***************************************************************************)
C2_WatchNeverExitsWithChildCode ==
    WatchRequested => ExitVia # "status"

(***************************************************************************)
(* C3. No step of Scripts() changes the caller's GlobalConfig object or    *)
(* the declaration (and so the selected ScriptDefinition).                 *)
(***************************************************************************)
C3_NoMutation ==
    [][globalConfig' = globalConfig /\ config' = config]_vars

(***************************************************************************)
(* C4. With a script name that is empty or no key of the declaration, the  *)
(* run spawns no child and ends in a fatal failure whose message contains  *)
(* the name when one was given.                                            *)
(***************************************************************************)
C4_UnknownNameFails ==
    NameMissing =>
        /\ children = <<>>
        /\ Exited =>
              /\ FailedWithMessage
              /\ Truthy(scriptArg) => FailedMentioning(scriptArg.v)

\* one-shot mode of a declared script
OneShot == (FileBacked \/ CommandBacked) /\ ~WatchRequested

\* the state part of C5
C5_OneShotState ==
    OneShot =>
        /\ Len(children) <= 1
        /\ pc = "awaitStatus" => Len(children) = 1
        /\ Exited /\ children # <<>> =>
              /\ children[1].status # Undef
              /\ ExitVia = "status"
              /\ exit.code = children[1].status.code
        /\ ExitVia = "status" => Len(children) = 1

(***************************************************************************)
(* C5. Outside watch mode a file-backed or command-backed script launches  *)
(* at most one child, exactly one once the launch is reached; the          *)
(* orchestrator does not exit while its child runs, exits with exactly the *)
(* child's exit code, and once the child has exited it eventually exits.   *)
(***************************************************************************)
C5_OneShotExitCode ==
    /\ []C5_OneShotState
    /\ (OneShot /\ children # <<>> /\ Running = {}) ~> (Exited /\ ExitVia = "status")

C5_Witness ==
    /\ OneShot
    /\ FileBacked
    /\ Exited
    /\ Len(children) = 1
    /\ exit = [via |-> "status", code |-> 2]

TargetMissing == FileBacked /\ Declared.file.v \notin fs

(***************************************************************************)
(* C6 as claimed: a file-backed script whose target file does not exist    *)
(* spawns no child, starts no watcher, and every way the run ends is the   *)
(* fatal message containing the path.                                      *)
(***************************************************************************)
C6_MissingFileFails ==
    TargetMissing =>
        /\ children = <<>>
        /\ watcher = Undef
        /\ Exited => FailedMentioning(Declared.file.v)

(***************************************************************************)
(* C6 as amended: a file-backed script whose target file does not exist    *)
(* never gets past the file check (no child, no watcher, in watch mode and *)
(* outside it), and the run ends either in the fatal message containing    *)
(* the path or, before the check, in the failure of the env-file load.     *)
(***************************************************************************)
C6_MissingFileNeverLaunches ==
    TargetMissing =>
        /\ children = <<>>
        /\ watcher = Undef
        /\ pc \notin {"startWatcher", "watching", "runFile", "awaitStatus"}
        /\ Exited =>
              \/ FailedMentioning(Declared.file.v)
              \/ ExitVia = "throw" /\ out[Len(out)].msg[1] = "loadEnvFromFile"

C6_Witness ==
    /\ TargetMissing
    /\ WatchRequested
    /\ Exited
    /\ FailedMentioning(TargetFile)

(***************************************************************************)
(* C7. At most one child process of the orchestrator is running at any     *)
(* time, in watch mode and outside it.                                     *)
(***************************************************************************)
C7_AtMostOneChildRunning == Cardinality(Running) <= 1

C7_Witness ==
    /\ WatchRequested
    /\ Cardinality(Running) = 1
    /\ pc = "awaitStatus"

\* envFile as resolved from the inputs: script level, else global level, else
\* true when .env exists
EffectiveEnvFile ==
    IF Get(script, "envFile") # Undef THEN Get(script, "envFile")
    ELSE IF globalConfig.v.envFile # Undef THEN globalConfig.v.envFile
    ELSE IF ".env" \in fs THEN B(TRUE) ELSE Undef

FileVars ==
    IF Truthy(EffectiveEnvFile)
    THEN EnvFileContent(IF EffectiveEnvFile.t = "string" THEN EffectiveEnvFile.v ELSE ".env")
    ELSE EmptyObject

LayerKeys(layer) == IF layer = Undef THEN {} ELSE DOMAIN layer.v

ExpectedEnv ==
    LET se == Get(script, "env")
        ge == globalConfig.v.env
    IN  IF ~Truthy(EffectiveEnvFile) /\ se = Undef /\ ge = Undef
        THEN Undef
        ELSE O([k \in DOMAIN FileVars \cup LayerKeys(ge) \cup LayerKeys(se) |->
                  IF k \in LayerKeys(se) THEN ToEnvString(se.v[k])
                  ELSE IF k \in LayerKeys(ge) THEN ToEnvString(ge.v[k])
                  ELSE FileVars[k]])

(***************************************************************************)
(* C8. The environment handed to a child takes, key by key, the script     *)
(* env value if the script env defines the key, else the global env value  *)
(* if the global env defines it, else the env-file value; with no env file *)
(* in effect and no env at either level it is undefined.                   *)
(***************************************************************************)
C8_EnvOverlay ==
    \A i \in 1..Len(children) : children[i].env = ExpectedEnv

C8_Witness ==
    /\ Len(children) = 1
    /\ children[1].env =
          O([f |-> "file", fg |-> "2", fs |-> "1", fgs |-> "script",
             g |-> "global", gs |-> "true", s |-> "script"])

\* the segment a token of the inputs belongs to
Segment(tok) ==
    CASE tok \in {"echo", "hello", "hello world"} -> 0
      [] tok \in {"--allow-all", "--allow-net", "--allow-read"} -> 1
      [] tok \in {"-c", "tsconfig.json", "base.json"} -> 2
      [] tok \in {"--reload", "--lock", "lock.json"} -> 3
      [] tok \in {"--importmap", "map.json"} -> 4
      [] tok = "--unstable" -> 5
      [] tok = TargetFile -> 6
      [] OTHER -> 7

InSegmentOrder(q) ==
    \A i, j \in 1..Len(q) : i < j => Segment(q[i]) <= Segment(q[j])

CmdInOrder(cmd) ==
    LET n == Len(cmd)
        r == Len(args) - 1
        head == SubSeq(cmd, 1, n - r)
    IN  /\ n >= r
        /\ SubSeq(cmd, n - r + 1, n) = SubSeq(args, 2, Len(args))
        /\ \A i \in 1..Len(head) : head[i] # " "
        /\ IF FileBacked
           THEN /\ Len(head) >= 3
                /\ head[1] = "deno"
                /\ head[2] = "run"
                /\ InSegmentOrder(SubSeq(head, 3, Len(head)))
                /\ Cardinality({i \in 3..Len(head) : Segment(head[i]) = 6}) = 1
                /\ \A i \in 3..Len(head) : Segment(head[i]) # 0
           ELSE /\ InSegmentOrder(head)
                /\ Len(head) >= 1
                /\ Segment(head[1]) = 0
                /\ \A i \in 1..Len(head) : Segment(head[i]) \in {0, 7}

(***************************************************************************)
(* C9. The argument vector of a launched child keeps the fixed order:      *)
(* deno, run, permission flags, tsconfig flag, extra interpreter args,     *)
(* import-map flag, unstable flag, file path, script args for a            *)
(* file-backed script; tokens of run, script args for a command-backed     *)
(* one; and in both the rest args (Deno.args after the script name) come   *)
(* last, verbatim and in order.                                            *)
(***************************************************************************)
C9_ArgvOrder ==
    \A c \in 1..Len(children) : CmdInOrder(children[c].cmd)

C9_Witness ==
    /\ Len(children) = 1
    /\ children[1].cmd =
          <<"deno", "run", "--allow-net", "-c", "tsconfig.json", "--reload",
            "--importmap", "map.json", "--unstable", TargetFile, "--port", "80",
            TargetFile, "--allow-net">>

ScriptElseGlobal(field) ==
    IF Get(script, field) # Undef THEN Get(script, field) ELSE globalConfig.v[field]

WatchResolved ==
    \/ pc \in {"dispatch", "startWatcher", "watching", "runFile", "awaitStatus"}
    \/ ExitVia = "status"

(***************************************************************************)
(* C10. For envFile and for the on/off decision of watch the script-level  *)
(* value applies whenever it is not undefined, false included; the global  *)
(* value applies only when the script-level value is absent.               *)
(***************************************************************************)
C10_ScriptLevelWins ==
    /\ script # Undef /\ pc # "defaults" => envFile = ScriptElseGlobal("envFile")
    /\ pc = "mergeEnv" => (env # Undef <=> Truthy(ScriptElseGlobal("envFile")))
    /\ WatchResolved => (watchModeEnabled <=> Truthy(ScriptElseGlobal("watch")))
    /\ watcher # Undef => Truthy(ScriptElseGlobal("watch"))

C10_Witness ==
    /\ pc = "runFile"
    /\ ".env" \in fs
    /\ Get(script, "envFile") = B(FALSE)
    /\ globalConfig.v.envFile = B(TRUE)
    /\ Get(script, "watch") = B(FALSE)
    /\ globalConfig.v.watch = B(TRUE)
    /\ env = Undef
    /\ ~watchModeEnabled

\* the watch value of each level as an object, or no object
ScriptWatchObject == Get(script, "watch").t = "object"
GlobalWatchObject == globalConfig.v.watch.t = "object"

(***************************************************************************)
(* C11. With watch an object at both levels the resolved watch options     *)
(* have the union of the keys, each key of the script object with the      *)
(* script's value and every other key with the global value; with an       *)
(* object at one level only they equal that object; with none they are     *)
(* empty.                                                                  *)
(***************************************************************************)
C11_WatchOptionsMerge ==
    WatchResolved =>
        LET sw == Get(script, "watch")
            gw == globalConfig.v.watch
        IN  CASE ScriptWatchObject /\ GlobalWatchObject ->
                   /\ DOMAIN watchOptions = DOMAIN sw.v \cup DOMAIN gw.v
                   /\ \A k \in DOMAIN sw.v : watchOptions[k] = sw.v[k]
                   /\ \A k \in DOMAIN gw.v \ DOMAIN sw.v : watchOptions[k] = gw.v[k]
              [] ScriptWatchObject /\ ~GlobalWatchObject -> watchOptions = sw.v
              [] ~ScriptWatchObject /\ GlobalWatchObject -> watchOptions = gw.v
              [] OTHER -> watchOptions = EmptyObject

C11_Witness ==
    /\ pc = "watching"
    /\ Get(script, "watch") = ScriptWatch
    /\ globalConfig.v.watch = GlobalWatch
    /\ watchOptions = [paths |-> A(<<"./lib">>), interval |-> N(3), recursive |-> B(TRUE)]
    /\ watcher.v.paths = <<TargetFile, "./lib">>

\* a second resolution on the same objects is under way or done
SecondCall == history.first # Undef

\* the values the current call has resolved
ResolvedNow ==
    [envFile |-> envFile, env |-> env, watchModeEnabled |-> watchModeEnabled,
     watchOptions |-> watchOptions, dotEnv |-> ".env" \in fs]

\* envFile as a resolution of the caller's original objects would give it with
\* the present working directory
FreshEnvFile ==
    IF Get(script, "envFile") # Undef THEN Get(script, "envFile")
    ELSE IF history.original.v.envFile # Undef THEN history.original.v.envFile
    ELSE IF ".env" \in fs THEN B(TRUE) ELSE Undef

(***************************************************************************)
(* C12. Resolving the same (script, global) pair a second time gives the   *)
(* values of the first resolution when .env is present as before, and in   *)
(* every case the values that the caller's objects and the present .env    *)
(* alone determine: nothing the first resolution left behind shows.        *)
(***************************************************************************)
C12_ResolveTwice ==
    SecondCall =>
        /\ pc = "dispatch" /\ history.first.dotEnv = (".env" \in fs) =>
              ResolvedNow = history.first
        /\ script # Undef /\ pc \notin {"start", "defaults"} => envFile = FreshEnvFile
        /\ ExitVia = "throw" => Truthy(FreshEnvFile)

\* the part of C12 that holds: with .env present as before, the same values
C12_SameWhenUnchanged ==
    SecondCall /\ pc = "dispatch" /\ history.first.dotEnv = (".env" \in fs) =>
        ResolvedNow = history.first

\* the selected declaration has neither a file nor a command to run
NoExecutionTarget ==
    ~NameMissing /\ ~Truthy(Declared.file) /\ ~Truthy(Declared.run)

(***************************************************************************)
(* C13. A script definition in which file and run are both unset or falsy  *)
(* never launches a child and never starts a watcher, and the run ends     *)
(* only in a fatal failure with an error message and a non-zero code.      *)
(***************************************************************************)
C13_NoTargetFails ==
    NoExecutionTarget =>
        /\ children = <<>>
        /\ watcher = Undef
        /\ pc \notin {"startWatcher", "watching", "runFile", "awaitStatus"}
        /\ Exited =>
              /\ ExitVia \in {"fail", "throw"}
              /\ exit.code # 0
              /\ out # <<>>
              /\ out[Len(out)].level \in {"fail", "uncaught"}

C13_Witness ==
    /\ NoExecutionTarget
    /\ Declared.file = S("")
    /\ Declared.run = S("")
    /\ WatchRequested
    /\ restArg # <<>>
    /\ Exited
    /\ out[Len(out)] = [level |-> "fail", msg |-> <<"Script not found!">>]

\* neither the selected script nor the caller's global config names an env file
EnvFileUnspecified ==
    /\ script # Undef
    /\ Get(script, "envFile") = Undef
    /\ Get(history.original, "envFile") = Undef

\* the env file has been resolved for this run
EnvFileResolved == pc \notin {"start", "defaults"}

(***************************************************************************)
(* C14. With envFile unspecified at both levels: if ".env" exists in the   *)
(* working directory the effective envFile is true and the variables of    *)
(* ".env" are loaded; if ".env" does not exist the effective envFile stays *)
(* undefined, no env file is loaded and the load cannot fail.              *)
(***************************************************************************)
C14_DefaultEnvFile ==
    EnvFileUnspecified /\ EnvFileResolved =>
        IF ".env" \in fs
        THEN /\ envFile = B(TRUE)
             /\ ExitVia # "throw"
             /\ pc = "mergeEnv" => env = O(EnvFileContent(".env"))
             /\ pc \notin {"loadEnv", "mergeEnv"} =>
                   DOMAIN EnvFileContent(".env") \subseteq DOMAIN env.v
        ELSE /\ envFile = Undef
             /\ ExitVia # "throw"
             /\ pc = "mergeEnv" => env = Undef
             /\ pc \notin {"loadEnv", "mergeEnv"} => env = ExpectedEnv

C14_Witness ==
    /\ EnvFileUnspecified
    /\ ".env" \in fs
    /\ globalConfig # history.original
    /\ pc = "mergeEnv"
    /\ envFile = B(TRUE)
    /\ env = O(EnvFileContent(".env"))

\* the env file the run resolves cannot be read
EnvFileUnreadable ==
    /\ Truthy(EffectiveEnvFile)
    /\ EnvFilePath(EffectiveEnvFile) \notin fs

(***************************************************************************)
(* C16. The script-name checks come first: with an empty or unknown name   *)
(* the run goes from its start straight to the fatal failure, with the     *)
(* global config still as the caller passed it, no env file resolved or    *)
(* loaded and nothing launched or watched.  For a known file-backed script *)
(* the env file is loaded before the target file is checked, so a run      *)
(* whose env file cannot be read ends in the load error and never in the   *)
(* file-not-found failure.                                                 *)
(***************************************************************************)
C16_NameChecksFirst ==
    /\ NameMissing =>
          /\ pc \in {"start", "exited"}
          /\ Exited => FailedWithMessage
          /\ globalConfig = history.original
          /\ script = Undef
          /\ envFile = Undef
          /\ env = Undef
          /\ children = <<>>
          /\ watcher = Undef
    /\ FileBacked /\ script # Undef /\ EnvFileUnreadable =>
          /\ pc \in {"defaults", "loadEnv", "exited"}
          /\ Exited => ExitVia = "throw" /\ out[Len(out)].msg[1] = "loadEnvFromFile"

\* the second half of C16 on its own: the env-file load pre-empts the
\* target-file check
C16_EnvLoadBeforeFileCheck ==
    TargetMissing /\ script # Undef /\ EnvFileUnreadable =>
        /\ pc \in {"defaults", "loadEnv", "exited"}
        /\ Exited => ExitVia = "throw" /\ ~FailedMentioning(Declared.file.v)

\* the spellings of the init command among the first arguments drawn
InitSpellings == {"init", "INIT", "Init"}

\* ./scripts.ts as it was when the shim started
ScriptsTsBefore == history.original

(***************************************************************************)
(* C15. The init command of the shim, in any letter case: once it has      *)
(* completed ./scripts.ts exists.  If ./scripts.ts existed before, its     *)
(* content stays as it was, nothing is written and no deno cache or deno   *)
(* fmt child is run; otherwise the file is written before the first child  *)
(* is launched and the children are deno cache, then deno fmt.             *)
(***************************************************************************)
C15_InitCreatesOnce ==
    cliCmd \in InitSpellings =>
        /\ Exited => ExitVia = "end" /\ scriptsTs # Undef
        /\ ScriptsTsBefore # Undef =>
              /\ scriptsTs = ScriptsTsBefore
              /\ children = <<>>
        /\ ScriptsTsBefore = Undef /\ pc # "cli" =>
              /\ scriptsTs # Undef
              /\ Len(children) \in 1..2
              /\ children[1].cmd = <<"deno", "cache", "./scripts.ts">>
              /\ Len(children) = 2 =>
                    /\ children[1].status # Undef
                    /\ children[2].cmd = <<"deno", "fmt", "-q", "./scripts.ts">>
              /\ Exited => Len(children) = 2 /\ children[2].status # Undef

C15_Witness ==
    /\ cliCmd = "INIT"
    /\ ScriptsTsBefore = Undef
    /\ Exited
    /\ scriptsTs = S("formatted")
    /\ Len(children) = 2

\* the default branch of the shim: with ./scripts.ts present one child runs
\* it with all process arguments and the shim ends only after that child;
\* with ./scripts.ts absent the shim fails and launches nothing
DefaultBranch ==
    IF ScriptsTsBefore # Undef
    THEN /\ pc # "cli" =>
               /\ Len(children) = 1
               /\ children[1].cmd = <<"deno", "run", "-A", "./scripts.ts">> \o args
         /\ Exited => ExitVia = "end" /\ children[1].status # Undef
    ELSE /\ children = <<>>
         /\ pc # "cli" => FailedMentioning("scripts.ts file not found!")

(***************************************************************************)
(* C17 as claimed: for every first argument other than the string init     *)
(* the shim takes the default branch.                                      *)
(***************************************************************************)
C17_NotInitRunsScripts ==
    Len(args) > 0 /\ args[1] # "init" => DefaultBranch

(***************************************************************************)
(* C17, amended: for every first argument that is not init in some letter  *)
(* case, and when there is no argument, the shim takes the default branch: *)
(* it launches deno run -A ./scripts.ts followed by all of its arguments   *)
(* in order and waits for that child when ./scripts.ts exists, and fails   *)
(* with "scripts.ts file not found!" without a child when it does not.     *)
(***************************************************************************)
C17_NotInitAnyCaseRunsScripts ==
    cliCmd \notin InitSpellings => DefaultBranch

C17_Witness ==
    /\ args = <<"log", "--", "a b">>
    /\ ScriptsTsBefore # Undef
    /\ Exited
    /\ children[1].cmd = <<"deno", "run", "-A", "./scripts.ts", "log", "--", "a b">>
    /\ children[1].status # Undef

====
